---- MODULE Spec2Model ----
(***************************************************************************)
(* State-machine model of the TEI editor component (src/tei-editor.tsx;    *)
(* src/unnamed/part_000 holds near-identical variants of the same editor). *)
(*                                                                         *)
(* Documents are sequences of tokens.  The markup characters the code's    *)
(* regular expressions look at ("<", ">", "/", " ", newline) are one token *)
(* each; an element name, an attribute (name="value") and the body of the  *)
(* XML declaration are one token each, because no regular expression of    *)
(* the code looks inside them; "x" is a character of text; "&gt;" is the   *)
(* entity reference the serializer writes for ">" in text.                 *)
(***************************************************************************)
EXTENDS Integers, Sequences, FiniteSets, TLC

LT == "<"
GT == ">"
SL == "/"
SP == " "
NL == "\n"
XMLDECL == "?xml"
ENTGT == "&gt;"

\* Element names of the model's documents.  "parsererror" is the name
\* formatXML searches for to detect a parse failure; "tei:TEI" is the
\* qualified name of a TEI element written with the prefix tei.
Names == {"TEI", "teiHeader", "fileDesc", "titleStmt", "title",
          "publicationStmt", "sourceDesc", "text", "body", "p", "parsererror",
          "tei:TEI"}

\* The prefix of a qualified name ("": none) and its local name.
Prefix(n) == IF n = "tei:TEI" THEN "tei" ELSE ""
LocalName(n) == IF n = "tei:TEI" THEN "TEI" ELSE n

\* Attributes, one token each: the TEI namespace declaration, a declaration
\* of another namespace, an ordinary attribute (xml:lang="it"), and the
\* declaration xmlns:tei="http://www.tei-c.org/ns/1.0" of the prefix tei.
AttrTokens == {"xmlns", "xmlnsOther", "lang", "xmlns:tei"}

IsSpace(c) == c \in {SP, NL}

\* ---------------------------------------------------------------------
\* Scanning helpers.  They split the range in halves rather than walk it
\* token by token, which keeps the evaluation shallow on long documents.
\* ---------------------------------------------------------------------
At(s, p) == IF p >= 1 /\ p <= Len(s) THEN s[p] ELSE "EOF"

\* The first position in lo..hi whose token is in T (0: none).
RECURSIVE FirstIn(_, _, _, _)
FirstIn(s, lo, hi, T) ==
  IF lo > hi THEN 0
  ELSE IF lo = hi THEN (IF s[lo] \in T THEN lo ELSE 0)
  ELSE LET mid == (lo + hi) \div 2
           l == FirstIn(s, lo, mid, T)
       IN IF l # 0 THEN l ELSE FirstIn(s, mid + 1, hi, T)

\* The first position in lo..hi whose token is not in T (0: none).
RECURSIVE FirstNotIn(_, _, _, _)
FirstNotIn(s, lo, hi, T) ==
  IF lo > hi THEN 0
  ELSE IF lo = hi THEN (IF s[lo] \notin T THEN lo ELSE 0)
  ELSE LET mid == (lo + hi) \div 2
           l == FirstNotIn(s, lo, mid, T)
       IN IF l # 0 THEN l ELSE FirstNotIn(s, mid + 1, hi, T)

\* The last position in lo..hi whose token is not in T (0: none).
RECURSIVE LastNotIn(_, _, _, _)
LastNotIn(s, lo, hi, T) ==
  IF lo > hi THEN 0
  ELSE IF lo = hi THEN (IF s[lo] \notin T THEN lo ELSE 0)
  ELSE LET mid == (lo + hi) \div 2
           r == LastNotIn(s, mid + 1, hi, T)
       IN IF r # 0 THEN r ELSE LastNotIn(s, lo, mid, T)

\* The concatenation of parts[lo], ..., parts[hi].
RECURSIVE Flatten(_, _, _)
Flatten(parts, lo, hi) ==
  IF lo > hi THEN <<>>
  ELSE IF lo = hi THEN parts[lo]
  ELSE LET mid == (lo + hi) \div 2
       IN Flatten(parts, lo, mid) \o Flatten(parts, mid + 1, hi)

Concat(parts) == Flatten(parts, 1, Len(parts))

\* ---------------------------------------------------------------------
\* DOMParser.parseFromString(text, "text/xml"), for the XML subset
\*   document ::= ("<" "?xml" ">")? S* element S*
\*   element  ::= "<" Name (S+ Attr)* S* ( "/" ">" | ">" content "<" "/" Name S* ">" )
\*   content  ::= (chardata | element)*
\* A result is [ok, pos, val]: whether the text parses, the position after
\* what was read, and what was read.
\* ---------------------------------------------------------------------
ElemNode(n, as, cs) == [kind |-> "elem", name |-> n, attrs |-> as, children |-> cs, data |-> <<>>]
TextNode(cs) == [kind |-> "text", name |-> "", attrs |-> <<>>, children |-> <<>>, data |-> cs]
Fail == [ok |-> FALSE, pos |-> 0, val |-> <<>>]
Ok(p, v) == [ok |-> TRUE, pos |-> p, val |-> v]

\* The position after the white space that starts at p.
SkipS(s, p) ==
  LET q == FirstNotIn(s, p, Len(s), {SP, NL}) IN IF q = 0 THEN Len(s) + 1 ELSE q

InSeq(x, q) == \E i \in 1..Len(q) : q[i] = x

\* Attributes; one name twice, or two declarations of the default
\* namespace, are a well-formedness error.
RECURSIVE ParseAttrs(_, _, _)
ParseAttrs(s, p, acc) ==
  LET q == SkipS(s, p) IN
  IF q > p /\ At(s, q) \in AttrTokens
  THEN IF InSeq(s[q], acc) \/ (s[q] \in {"xmlns", "xmlnsOther"} /\
                               (InSeq("xmlns", acc) \/ InSeq("xmlnsOther", acc)))
       THEN Fail
       ELSE ParseAttrs(s, q + 1, Append(acc, s[q]))
  ELSE Ok(q, acc)

\* Character data: any token but "<"; "&gt;" is the character ">".
CharOf(c) == IF c = ENTGT THEN GT ELSE c

RECURSIVE ParseElement(_, _)
RECURSIVE ParseContent(_, _, _)
ParseElement(s, p) ==
  IF At(s, p) # LT \/ At(s, p + 1) \notin Names THEN Fail
  ELSE
    LET n == s[p + 1]
        a == ParseAttrs(s, p + 2, <<>>)
    IN IF ~a.ok THEN Fail
       ELSE IF At(s, a.pos) = SL /\ At(s, a.pos + 1) = GT
            THEN Ok(a.pos + 2, ElemNode(n, a.val, <<>>))
       ELSE IF At(s, a.pos) = GT
            THEN LET c == ParseContent(s, a.pos + 1, <<>>) IN
                 IF ~c.ok THEN Fail
                 ELSE IF At(s, c.pos) = LT /\ At(s, c.pos + 1) = SL /\ At(s, c.pos + 2) = n
                      THEN LET e == SkipS(s, c.pos + 3) IN
                           IF At(s, e) = GT THEN Ok(e + 1, ElemNode(n, a.val, c.val))
                           ELSE Fail
                      ELSE Fail
       ELSE Fail

\* The children of an element, up to its end tag: a run of character data
\* is one text node.
ParseContent(s, p, acc) ==
  IF p > Len(s) THEN Ok(p, acc)
  ELSE IF s[p] = LT
       THEN IF At(s, p + 1) = SL THEN Ok(p, acc)
            ELSE LET e == ParseElement(s, p) IN
                 IF ~e.ok THEN Fail
                 ELSE ParseContent(s, e.pos, Append(acc, e.val))
       ELSE LET f == FirstIn(s, p, Len(s), {LT})
                q == IF f = 0 THEN Len(s) + 1 ELSE f
            IN ParseContent(s, q, Append(acc, TextNode([i \in 1..(q - p) |-> CharOf(s[p + i - 1])])))

\* Namespace well-formedness: the prefix of every element name is declared
\* on the element or on one of its ancestors (bound: it is declared above).
RECURSIVE PrefixesBound(_, _)
PrefixesBound(n, bound) ==
  \/ n.kind = "text"
  \/ /\ Prefix(n.name) = "" \/ bound \/ InSeq("xmlns:tei", n.attrs)
     /\ \A i \in 1..Len(n.children) :
          PrefixesBound(n.children[i], bound \/ InSeq("xmlns:tei", n.attrs))

\* Whether the text starts with an XML declaration.
HasDecl(s) == At(s, 1) = LT /\ At(s, 2) = XMLDECL /\ At(s, 3) = GT

\* The document, given the result e of reading the root element: nothing
\* but white space may follow it.  ok = FALSE is a well-formedness failure.
DocumentOf(s, decl, e) ==
  IF ~e.ok THEN [ok |-> FALSE, decl |-> FALSE, root |-> TextNode(<<>>)]
  ELSE IF SkipS(s, e.pos) = Len(s) + 1 /\ PrefixesBound(e.val, FALSE)
       THEN [ok |-> TRUE, decl |-> decl, root |-> e.val]
       ELSE [ok |-> FALSE, decl |-> FALSE, root |-> TextNode(<<>>)]

\* The parsed document.
parseFromString(s) ==
  DocumentOf(s, HasDecl(s), ParseElement(s, SkipS(s, IF HasDecl(s) THEN 4 ELSE 1)))

\* ---------------------------------------------------------------------
\* XMLSerializer.serializeToString(xmlDoc): the XML declaration when the
\* document had one, then the root element; an element without children is
\* written as an empty-element tag, attributes are separated by one space,
\* ">" in text is written "&gt;".  White space inside tags and outside the
\* root element is not part of the tree and is not written back.
\* ---------------------------------------------------------------------
SerializeAttrs(as) == Concat([i \in 1..Len(as) |-> <<SP, as[i]>>])

SerializeText(cs) == [i \in 1..Len(cs) |-> IF cs[i] = GT THEN ENTGT ELSE cs[i]]

RECURSIVE SerializeNode(_)
SerializeNode(n) ==
  IF n.kind = "text" THEN SerializeText(n.data)
  ELSE IF n.children = <<>>
       THEN <<LT, n.name>> \o SerializeAttrs(n.attrs) \o <<SL, GT>>
       ELSE <<LT, n.name>> \o SerializeAttrs(n.attrs) \o <<GT>>
            \o Concat([i \in 1..Len(n.children) |-> SerializeNode(n.children[i])])
            \o <<LT, SL, n.name, GT>>

serializeToString(doc) ==
  (IF doc.decl THEN <<LT, XMLDECL, GT>> ELSE <<>>) \o SerializeNode(doc.root)

\* .replace(/(>)(<)(\/*)/g, '$1\n$2$3'): a line break between every ">" that
\* is directly followed by "<", a ">" at a time from position p.
\* .replace(/>/g, '>\n') in the place of .replace(/>(<)/g, '>\n$1'): a line
\* break after every ">" that is not the last character.
RECURSIVE BreakTagsAfterEveryTag(_, _, _)
BreakTagsAfterEveryTag(s, p, acc) ==
  LET q == FirstIn(s, p, Len(s), {GT}) IN
  IF q = 0 THEN acc \o SubSeq(s, p, Len(s))
  ELSE IF q < Len(s)
       THEN BreakTagsAfterEveryTag(s, q + 1, acc \o SubSeq(s, p, q) \o <<NL>>)
       ELSE BreakTagsAfterEveryTag(s, q + 1, acc \o SubSeq(s, p, q))

RECURSIVE BreakTags(_, _, _)
BreakTags(s, p, acc) ==
  LET q == FirstIn(s, p, Len(s), {GT}) IN
  IF q = 0 THEN acc \o SubSeq(s, p, Len(s))
  ELSE IF At(s, q + 1) = LT
       THEN BreakTags(s, q + 1, acc \o SubSeq(s, p, q) \o <<NL>>)
       ELSE BreakTags(s, q + 1, acc \o SubSeq(s, p, q))

\* The end of the match of /<(.*?)>/ whose "<" is right before position p:
\* the first ">" at or after p with no line break before it (0: no match,
\* "." matches no line break).
FindClose(s, p) ==
  LET e == FirstIn(s, p, Len(s), {GT, NL}) IN IF e # 0 /\ s[e] = GT THEN e ELSE 0

\* match.replace(/\s+/g, ' '): every run of white space becomes one space,
\* a run at a time from position p.
RECURSIVE CollapseSpaces(_, _, _)
CollapseSpaces(m, p, acc) ==
  LET a == FirstIn(m, p, Len(m), {SP, NL}) IN
  IF a = 0 THEN acc \o SubSeq(m, p, Len(m))
  ELSE LET b == FirstNotIn(m, a, Len(m), {SP, NL})
           e == IF b = 0 THEN Len(m) + 1 ELSE b
       IN CollapseSpaces(m, e, acc \o SubSeq(m, p, a - 1) \o <<SP>>)

\* .replace(/<(.*?)>/g, match => match.replace(/\s+/g, ' ')): from p, the
\* next "<" that starts a match is found, the match replaced, and the
\* search goes on after the match; a "<" that starts none is kept.
RECURSIVE CollapseTags(_, _, _)
CollapseTags(s, p, acc) ==
  LET q == FirstIn(s, p, Len(s), {LT}) IN
  IF q = 0 THEN acc \o SubSeq(s, p, Len(s))
  ELSE LET e == FindClose(s, q + 1) IN
       IF e # 0
       THEN CollapseTags(s, e + 1, acc \o SubSeq(s, p, q - 1) \o CollapseSpaces(SubSeq(s, q, e), 1, <<>>))
       ELSE CollapseTags(s, q + 1, acc \o SubSeq(s, p, q))

\* line.trim()
Trim(l) ==
  LET a == FirstNotIn(l, 1, Len(l), {SP, NL})
      b == LastNotIn(l, 1, Len(l), {SP, NL})
  IN IF a = 0 THEN <<>> ELSE SubSeq(l, a, b)

\* .split('\n').map(line => line.trim()).join('\n'), a line at a time
\* from position p.
RECURSIVE TrimLines(_, _, _)
TrimLines(s, p, acc) ==
  LET e == FirstIn(s, p, Len(s), {NL}) IN
  IF e = 0 THEN acc \o Trim(SubSeq(s, p, Len(s)))
  ELSE TrimLines(s, e + 1, acc \o Trim(SubSeq(s, p, e - 1)) \o <<NL>>)

\* The text formatXML computes from a parsed document (lines 202-210).
formatted(doc) ==
  TrimLines(CollapseTags(BreakTags(serializeToString(doc), 1, <<>>), 1, <<>>), 1, <<>>)

\* xmlDoc.getElementsByTagName("parsererror").length > 0 (line 198): the
\* parser's error document holds a parsererror element, and so does any
\* well-formed document that has an element of that name.
RECURSIVE HasElement(_, _)
HasElement(n, name) ==
  n.kind = "elem" /\ (n.name = name \/ \E i \in 1..Len(n.children) : HasElement(n.children[i], name))

\* The check of line 198 that misses the parser's error document.
hasParserErrorMissed(doc) == HasElement(doc.root, "parsererror")

hasParserError(doc) == ~doc.ok \/ HasElement(doc.root, "parsererror")

\* ---------------------------------------------------------------------
\* The documents of the model.
\* ---------------------------------------------------------------------
Ind(n) == [i \in 1..n |-> SP]
Open(n) == <<LT, n, GT>>
Close(n) == <<LT, SL, n, GT>>

\* The initial document of useState (lines 7-39), with its layout (XML
\* declaration, one element per line, two spaces of indentation per level)
\* and the elements the TEI profile requires.
InitialDoc ==
  <<LT, XMLDECL, GT, NL>>
  \o <<LT, "TEI", SP, "xmlns", SP, "lang", GT, NL>>
  \o Ind(2) \o Open("teiHeader") \o <<NL>>
  \o Ind(4) \o Open("fileDesc") \o <<NL>>
  \o Ind(6) \o Open("titleStmt") \o <<NL>>
  \o Ind(8) \o Open("title") \o <<"x", SP, "x">> \o Close("title") \o <<NL>>
  \o Ind(6) \o Close("titleStmt") \o <<NL>>
  \o Ind(6) \o Open("publicationStmt") \o <<NL>>
  \o Ind(8) \o Open("p") \o <<"x">> \o Close("p") \o <<NL>>
  \o Ind(6) \o Close("publicationStmt") \o <<NL>>
  \o Ind(6) \o Open("sourceDesc") \o <<NL>>
  \o Ind(8) \o Open("p") \o <<"x">> \o Close("p") \o <<NL>>
  \o Ind(6) \o Close("sourceDesc") \o <<NL>>
  \o Ind(4) \o Close("fileDesc") \o <<NL>>
  \o Ind(2) \o Close("teiHeader") \o <<NL>>
  \o Ind(2) \o Open("text") \o <<NL>>
  \o Ind(4) \o Open("body") \o <<NL>>
  \o Ind(6) \o Open("p") \o <<"x">> \o Close("p") \o <<NL>>
  \o Ind(4) \o Close("body") \o <<NL>>
  \o Ind(2) \o Close("text") \o <<NL>>
  \o Close("TEI")

\* Texts the editing surface hands to handleContentChange (e.target.value).
DocUnformatted ==     \* well-formed, not in the formatter's shape
  <<LT, "TEI", SP, SP, "xmlns", GT>> \o Open("text") \o Open("body") \o Close("body")
  \o Close("text") \o <<SP>> \o Close("TEI")
DocFormatted ==       \* well-formed, already in the formatter's shape
  <<LT, "TEI", GT, NL, LT, "text", SL, GT, NL>> \o Close("TEI")
DocMalformed ==       \* the closing tag of text is missing
  Open("TEI") \o Open("text") \o Close("TEI")
DocParserErrorElement ==  \* well-formed, with an element named parsererror
  Open("TEI") \o <<LT, "parsererror", SL, GT>> \o Close("TEI")

EditInputs == {DocUnformatted, DocFormatted, DocMalformed, DocParserErrorElement}

\* Texts handed to handleContentChange to be formatted: a root element
\* whose content is up to MaxItems pieces, each a character of text, a
\* space, a line break, an entity reference or an empty child element,
\* written in one of three layouts.
MaxItems == 3
FormatItems == {<<"x">>, <<SP>>, <<NL>>, <<ENTGT>>, <<LT, "p", SL, GT>>}
FormatContents ==
  UNION {{Concat(c) : c \in [1..n -> FormatItems]} : n \in 0..MaxItems}
FormatLayouts == {"plain", "declared", "spaced"}
Laid(layout, content) ==
  CASE layout = "plain" -> Open("TEI") \o content \o Close("TEI")
    [] layout = "declared" ->
         <<LT, XMLDECL, GT, NL>> \o Open("TEI") \o content \o Close("TEI")
    [] layout = "spaced" ->
         <<LT, "TEI", SP, SP, "lang", NL, GT>> \o content \o <<LT, SL, "TEI", SP, GT, NL>>
FormatInputs == {Laid(l, c) : l \in FormatLayouts, c \in FormatContents}

\* Texts handed to handleContentChange to be validated.  An element is
\* written without white space, as an empty-element tag when it has no
\* content.
Element(n, as, content) ==
  <<LT, n>> \o Concat([i \in 1..Len(as) |-> <<SP, as[i]>>])
  \o (IF content = <<>> THEN <<SL, GT>> ELSE <<GT>> \o content \o <<LT, SL, n, GT>>)

\* Where a required element is put: as a child of the element that
\* requires it, inside a p child of that element, or nowhere.
Placements == {"child", "deep", "absent"}
Placed(place, el) ==
  CASE place = "child" -> el
    [] place = "deep" -> Element("p", <<>>, el)
    [] place = "absent" -> <<>>

\* One placement for every element validateTEI asks for.
Shapes ==
  [teiHeader : Placements, fileDesc : Placements, titleStmt : Placements,
   title : Placements, publicationStmt : BOOLEAN, sourceDesc : BOOLEAN,
   text : Placements, body : Placements]

TitleStmtOf(sh) ==
  Element("titleStmt", <<>>, Placed(sh.title, Element("title", <<>>, <<"x">>)))
FileDescOf(sh) ==
  Element("fileDesc", <<>>,
          Placed(sh.titleStmt, TitleStmtOf(sh))
          \o (IF sh.publicationStmt THEN Element("publicationStmt", <<>>, <<>>) ELSE <<>>)
          \o (IF sh.sourceDesc THEN Element("sourceDesc", <<>>, <<>>) ELSE <<>>))
TeiHeaderOf(sh) == Element("teiHeader", <<>>, Placed(sh.fileDesc, FileDescOf(sh)))
TextOf(sh) == Element("text", <<>>, Placed(sh.body, Element("body", <<>>, <<>>)))

\* The content of the root element.
ContentOf(sh) == Placed(sh.teiHeader, TeiHeaderOf(sh)) \o Placed(sh.text, TextOf(sh))

\* The attributes of the root element: the TEI namespace, none, another.
RootAttrs == {<<"xmlns">>, <<>>, <<"xmlnsOther">>}

\* Shapes with nothing placed deep, and with a header as in the initial
\* document.
PlainShapes ==
  {sh \in Shapes :
     /\ sh.fileDesc = "child" /\ sh.titleStmt = "child" /\ sh.title = "child"
     /\ sh.publicationStmt /\ sh.sourceDesc
     /\ sh.teiHeader # "deep" /\ sh.text # "deep" /\ sh.body # "deep"}

\* Documents with the root TEI.
TeiDocs ==
  {Element("TEI", as, ContentOf(sh)) : as \in {<<"xmlns">>, <<>>}, sh \in Shapes}
  \cup {Element("TEI", <<"xmlnsOther">>, ContentOf(sh)) : sh \in PlainShapes}

\* Documents with another root: text, p, and TEI written with a prefix.
OtherRootDocs ==
  {Element(n, as, ContentOf(sh)) : n \in {"text", "p"}, as \in RootAttrs, sh \in PlainShapes}
  \cup {Element("tei:TEI", <<"xmlns:tei">>, ContentOf(sh)) : sh \in PlainShapes}

\* Texts that are not well-formed: an end tag is missing, text follows the
\* root element, the prefix tei is not declared.
MalformedDocs ==
  {DocMalformed,
   Element("TEI", <<"xmlns">>, <<>>) \o <<"x">>,
   Element("tei:TEI", <<>>, Element("text", <<>>, <<>>))}

\* Well-formed texts with a parsererror element that holds text.
DocParserErrorText ==
  Element("TEI", <<"xmlns">>, Element("parsererror", <<>>, <<"x">>))

ValidateInputs ==
  TeiDocs \cup OtherRootDocs \cup MalformedDocs
  \cup {DocParserErrorElement, DocParserErrorText}

\* ---------------------------------------------------------------------
\* The editor's state.
\* ---------------------------------------------------------------------
\* Bound of the exploration: no action records a snapshot that would make
\* the history longer than this.
MaxHistory == 4

VARIABLES
  xmlContent,          \* useState, line 7: the Document buffer
  validationMessages,  \* useState, line 40
  historyRef,          \* useRef, line 41: the snapshots, oldest first
  currentIndexRef,     \* useRef, line 42: 0-based index into historyRef
  lastOp,              \* observer: the handler that ran last, what it recorded,
                       \*           and the cursor it found
  branch,              \* observer: progress through record; record; undo; record
  trip,                \* observer: progress through records, undos, redos
  undoDisabled,        \* the disabled prop of the Undo button as last rendered (line 273)
  redoDisabled         \* the disabled prop of the Redo button as last rendered (line 277)

core == <<xmlContent, validationMessages, historyRef, currentIndexRef>>
vars ==
  <<xmlContent, validationMessages, historyRef, currentIndexRef, lastOp, branch, trip,
    undoDisabled, redoDisabled>>

Msg(t, m) == [type |-> t, message |-> m]
FormatErrorMessage == "Correggi prima gli errori di sintassi XML"
FormatSuccessMessage == "Documento formattato correttamente"

\* historyRef.current[i], i counted from 0 as in the code.
Snapshot(h, i) == h[i + 1]

\* Array.prototype.slice(0, n)
Slice0(h, n) == SubSeq(h, 1, IF n < Len(h) THEN n ELSE Len(h))

\* ---------------------------------------------------------------------
\* Observers.  They record which handler ran; no handler reads them.
\* rec is <<v>> when the handler called addToHistory(v), <<>> otherwise.
\* ---------------------------------------------------------------------
NoBranch == [stage |-> "-", prev |-> <<>>, last |-> <<>>, lost |-> <<>>, log |-> <<>>]

\* stage: "R" one record ran last, "RR" two records in a row (prev, last),
\* "RRU" then an undo, "done" then a record (prev = a, lost = b, last = c,
\* log the history that record left), "doneUR" then only undo and redo
\* calls.  hist is the history after the handler ran.
BranchNext(b, op, rec, hist) ==
  IF rec # <<>>
  THEN IF b.stage = "RRU"
       THEN [stage |-> "done", prev |-> b.prev, last |-> rec, lost |-> b.last, log |-> hist]
       ELSE IF b.stage \in {"R", "RR", "done"}
            THEN [stage |-> "RR", prev |-> b.last, last |-> rec, lost |-> <<>>, log |-> <<>>]
            ELSE [stage |-> "R", prev |-> <<>>, last |-> rec, lost |-> <<>>, log |-> <<>>]
  ELSE IF op = "undo"
       THEN IF b.stage = "RR" THEN [b EXCEPT !.stage = "RRU"]
            ELSE IF b.stage \in {"done", "doneUR"} THEN [b EXCEPT !.stage = "doneUR"]
            ELSE NoBranch
  ELSE IF op = "redo"
       THEN IF b.stage \in {"done", "doneUR"} THEN [b EXCEPT !.stage = "doneUR"]
            ELSE NoBranch
  ELSE b

NoTrip == [phase |-> "off", run |-> <<>>, u |-> 0, j |-> 0, log0 |-> <<>>]

\* phase "rec": run holds the snapshots recorded in a row; "undo": u undo
\* calls followed (u < Len(run)), log0 the history before the first;
\* "redo": then j redo calls (j <= u).
TripNext(t, op, rec, hist) ==
  IF rec # <<>>
  THEN [phase |-> "rec", run |-> (IF t.phase = "rec" THEN t.run ELSE <<>>) \o rec,
        u |-> 0, j |-> 0, log0 |-> <<>>]
  ELSE IF op = "undo"
       THEN IF t.phase = "rec" /\ Len(t.run) >= 2
            THEN [t EXCEPT !.phase = "undo", !.u = 1, !.log0 = hist]
            ELSE IF t.phase = "undo" /\ t.u < Len(t.run) - 1
                 THEN [t EXCEPT !.u = t.u + 1]
                 ELSE NoTrip
  ELSE IF op = "redo"
       THEN IF t.phase = "undo" THEN [t EXCEPT !.phase = "redo", !.j = 1]
            ELSE IF t.phase = "redo" /\ t.j < t.u THEN [t EXCEPT !.j = t.j + 1]
            ELSE NoTrip
  ELSE t

Observe(op, rec) ==
  /\ lastOp' = [op |-> op, rec |-> rec, at |-> currentIndexRef]
  /\ branch' = BranchNext(branch, op, rec, historyRef')
  /\ trip' = TripNext(trip, op, rec, historyRef)

\* The render that follows a handler.  React renders TEIEditor again when
\* a state setter was given a value that is not the state it holds
\* (Object.is): setXmlContent a text other than the buffer,
\* setValidationMessages any array, which is a new object at every call.
\* historyRef and currentIndexRef are refs: writing them asks for no
\* render.  A render reads the refs as the handler left them and computes
\* the two disabled props (lines 273 and 277); without a render the
\* buttons stay as they were.
Render(stateChanged) ==
  IF stateChanged
  THEN /\ undoDisabled' = (currentIndexRef' = 0)
       /\ redoDisabled' = (currentIndexRef' = Len(historyRef') - 1)
  ELSE UNCHANGED <<undoDisabled, redoDisabled>>

\* ---------------------------------------------------------------------
\* Init: the state after the first render (lines 7-43).
\* ---------------------------------------------------------------------
Init ==
  /\ xmlContent = InitialDoc
  /\ validationMessages = <<>>
  /\ historyRef = <<InitialDoc>>
  /\ currentIndexRef = 0
  /\ lastOp = [op |-> "init", rec |-> <<>>, at |-> 0]
  /\ branch = NoBranch
  /\ trip = [NoTrip EXCEPT !.phase = "rec"]
  /\ undoDisabled = TRUE
  /\ redoDisabled = TRUE

\* ---------------------------------------------------------------------
\* The handlers.
\* ---------------------------------------------------------------------
\* Variants of addToHistory with a slip in them.
addToHistoryIndexOffByOne(h, i, content) ==
  LET newHistory == Slice0(h, i + 1) \o <<content>>
  IN [history |-> newHistory, index |-> Len(newHistory)]
addToHistoryNoTruncate(h, i, content) ==
  LET newHistory == h \o <<content>>
  IN [history |-> newHistory, index |-> Len(newHistory) - 1]
addToHistorySliceOffByOne(h, i, content) ==
  LET newHistory == Slice0(h, i + 2) \o <<content>>
  IN [history |-> newHistory, index |-> Len(newHistory) - 1]
addToHistorySkipSame(h, i, content) ==
  IF content = Snapshot(h, i) THEN [history |-> h, index |-> i]
  ELSE LET newHistory == Slice0(h, i + 1) \o <<content>>
       IN [history |-> newHistory, index |-> Len(newHistory) - 1]

\* addToHistory that keeps the two newest snapshots only.
addToHistoryBounded(h, i, content) ==
  LET newHistory == Slice0(h, i + 1) \o <<content>>
  IN IF Len(newHistory) > 2
     THEN [history |-> SubSeq(newHistory, Len(newHistory) - 1, Len(newHistory)), index |-> 1]
     ELSE [history |-> newHistory, index |-> Len(newHistory) - 1]

\* addToHistory (lines 45-52): the new values of historyRef.current and
\* currentIndexRef.current.
addToHistory(h, i, content) ==
  LET newHistory == Slice0(h, i + 1) \o <<content>>
  IN [history |-> newHistory, index |-> Len(newHistory) - 1]

\* handleContentChange (lines 239-243), the textarea's onChange (line 302):
\* React calls it when the value of the textarea, which it renders from
\* xmlContent (line 301), has changed, so e.target.value is another text
\* than the buffer.
handleContentChange ==
  \E newContent \in EditInputs :
    /\ newContent # xmlContent
    /\ currentIndexRef + 2 <= MaxHistory
    /\ xmlContent' = newContent
    /\ LET r == addToHistory(historyRef, currentIndexRef, newContent)
       IN historyRef' = r.history /\ currentIndexRef' = r.index
    /\ UNCHANGED validationMessages
    /\ Observe("edit", <<newContent>>)
    /\ Render(TRUE)

\* undo that shows the snapshot it leaves instead of the one it reaches.
undoStale ==
  /\ IF currentIndexRef > 0
     THEN /\ currentIndexRef' = currentIndexRef - 1
          /\ xmlContent' = Snapshot(historyRef, currentIndexRef)
     ELSE UNCHANGED <<currentIndexRef, xmlContent>>
  /\ UNCHANGED <<historyRef, validationMessages>>
  /\ Observe("undo", <<>>)
  /\ Render(xmlContent' # xmlContent)

\* undo that goes back to the first snapshot.
undoToStart ==
  /\ IF currentIndexRef > 0
     THEN /\ currentIndexRef' = 0
          /\ xmlContent' = Snapshot(historyRef, currentIndexRef')
     ELSE UNCHANGED <<currentIndexRef, xmlContent>>
  /\ UNCHANGED <<historyRef, validationMessages>>
  /\ Observe("undo", <<>>)
  /\ Render(xmlContent' # xmlContent)

\* undo (lines 54-59)
undo ==
  /\ IF currentIndexRef > 0
     THEN /\ currentIndexRef' = currentIndexRef - 1
          /\ xmlContent' = Snapshot(historyRef, currentIndexRef')
     ELSE UNCHANGED <<currentIndexRef, xmlContent>>
  /\ UNCHANGED <<historyRef, validationMessages>>
  /\ Observe("undo", <<>>)
  /\ Render(xmlContent' # xmlContent)

\* redo that moves the cursor and leaves the buffer alone.
redoNoContentUpdate ==
  /\ IF currentIndexRef < Len(historyRef) - 1
     THEN currentIndexRef' = currentIndexRef + 1
     ELSE UNCHANGED currentIndexRef
  /\ UNCHANGED <<xmlContent, historyRef, validationMessages>>
  /\ Observe("redo", <<>>)
  /\ Render(xmlContent' # xmlContent)

\* redo that jumps to the newest snapshot.
redoToEnd ==
  /\ IF currentIndexRef < Len(historyRef) - 1
     THEN /\ currentIndexRef' = Len(historyRef) - 1
          /\ xmlContent' = Snapshot(historyRef, currentIndexRef')
     ELSE UNCHANGED <<currentIndexRef, xmlContent>>
  /\ UNCHANGED <<historyRef, validationMessages>>
  /\ Observe("redo", <<>>)
  /\ Render(xmlContent' # xmlContent)

\* redo (lines 61-66)
redo ==
  /\ IF currentIndexRef < Len(historyRef) - 1
     THEN /\ currentIndexRef' = currentIndexRef + 1
          /\ xmlContent' = Snapshot(historyRef, currentIndexRef')
     ELSE UNCHANGED <<currentIndexRef, xmlContent>>
  /\ UNCHANGED <<historyRef, validationMessages>>
  /\ Observe("redo", <<>>)
  /\ Render(xmlContent' # xmlContent)

\* ---------------------------------------------------------------------
\* The DOM the validators read.
\* ---------------------------------------------------------------------
\* The text of the parsererror element of the document the parser returns
\* for text that is not well-formed.
ParserDiagnostic == "XML Parsing Error"

\* xmlDoc.documentElement.  parseFromString does not throw on text that is
\* not well-formed: it returns a document whose only element is a
\* parsererror element that holds the diagnostic.
documentElement(doc) ==
  IF doc.ok THEN doc.root
  ELSE ElemNode("parsererror", <<>>, <<TextNode(<<ParserDiagnostic>>)>>)

\* The elements below n, in document order.
RECURSIVE Descendants(_)
Descendants(n) ==
  Concat([i \in 1..Len(n.children) |->
            IF n.children[i].kind = "elem"
            THEN <<n.children[i]>> \o Descendants(n.children[i])
            ELSE <<>>])

\* element.getElementsByTagName(name): the descendants of the element with
\* that qualified name, in document order.
getElementsByTagName(n, name) == SelectSeq(Descendants(n), LAMBDA e : e.name = name)

\* xmlDoc.getElementsByTagName(name): the document element is among them.
documentGetElementsByTagName(doc, name) ==
  SelectSeq(<<documentElement(doc)>> \o Descendants(documentElement(doc)),
            LAMBDA e : e.name = name)

\* list[0]: <<the element>>, or <<>> for undefined.
First(list) == IF list = <<>> THEN <<>> ELSE <<list[1]>>

\* node.textContent, as the sequence of its characters.
RECURSIVE textContent(_)
textContent(n) ==
  IF n.kind = "text" THEN n.data
  ELSE Concat([i \in 1..Len(n.children) |-> textContent(n.children[i])])

\* The string of a sequence of characters.  The parsererror elements of
\* the model's documents hold at most one character of text.
StringOf(cs) == IF cs = <<>> THEN "" ELSE cs[1]

TEINamespace == "http://www.tei-c.org/ns/1.0"

\* element.namespaceURI of the document element: the namespace its prefix
\* is bound to, or the default namespace declared on it ("null": none).
namespaceURI(n) ==
  IF Prefix(n.name) = "tei" THEN TEINamespace
  ELSE IF InSeq("xmlns", n.attrs) THEN TEINamespace
  ELSE IF InSeq("xmlnsOther", n.attrs) THEN "http://example.org/ns/other"
  ELSE "null"

\* ---------------------------------------------------------------------
\* validateXMLSyntax (lines 68-94).  The catch block (lines 87-93) is
\* never entered: neither the parser nor the DOM calls throw.
\* ---------------------------------------------------------------------
SyntaxFallbackMessage == "Errore di parsing XML"
SyntaxValidMessage == "La sintassi XML è valida"

\* Lines 74-86, with parserError the list of line 73.
syntaxMessages(parserError) ==
  IF Len(parserError) > 0
  THEN <<Msg("error", IF StringOf(textContent(parserError[1])) = ""
                      THEN SyntaxFallbackMessage
                      ELSE StringOf(textContent(parserError[1])))>>
  ELSE <<Msg("success", SyntaxValidMessage)>>

\* The messages validateXMLSyntax sets for the buffer text.
validateXMLSyntaxResult(content) ==
  syntaxMessages(documentGetElementsByTagName(parseFromString(content), "parsererror"))

\* ---------------------------------------------------------------------
\* validateTEI (lines 96-191).  The catch block (lines 185-190) is never
\* entered, for the same reason.
\* ---------------------------------------------------------------------
RootErrorMessage == "L'elemento radice deve essere <TEI>"
NamespaceErrorMessage == "Namespace TEI mancante o non corretto"
MissingTeiHeaderMessage == "Elemento <teiHeader> mancante"
MissingTextMessage == "Elemento <text> mancante"
MissingFileDescMessage == "Elemento <fileDesc> mancante in teiHeader"
MissingTitleMessage == "Elemento <title> mancante in titleStmt"
MissingBodyMessage == "Elemento <body> mancante in text"
ConformsMessage == "Il documento è conforme alle specifiche TEI"

requiredInFileDesc == <<"titleStmt", "publicationStmt", "sourceDesc">>

\* `Elemento <${elem}> mancante in fileDesc`
MissingInFileDescMessage(elem) ==
  CASE elem = "titleStmt" -> "Elemento <titleStmt> mancante in fileDesc"
    [] elem = "publicationStmt" -> "Elemento <publicationStmt> mancante in fileDesc"
    [] elem = "sourceDesc" -> "Elemento <sourceDesc> mancante in fileDesc"

\* Lines 113-118.
namespaceMessages(tei) ==
  IF namespaceURI(tei) # TEINamespace
  THEN <<Msg("error", NamespaceErrorMessage)>>
  ELSE <<>>

\* Lines 124-136 with text asked for before teiHeader.
requiredMessagesTextFirst(teiHeader, text) ==
  (IF text = <<>> THEN <<Msg("error", MissingTextMessage)>> ELSE <<>>)
  \o (IF teiHeader = <<>> THEN <<Msg("error", MissingTeiHeaderMessage)>> ELSE <<>>)

\* Lines 124-136, with teiHeader and text the elements of lines 121-122.
requiredMessages(teiHeader, text) ==
  (IF teiHeader = <<>> THEN <<Msg("error", MissingTeiHeaderMessage)>> ELSE <<>>)
  \o (IF text = <<>> THEN <<Msg("error", MissingTextMessage)>> ELSE <<>>)

\* Lines 159-165 without the check of the title.
titleStmtMessagesUnchecked(titleStmt) == <<>>

\* Lines 160-165, with titleStmt the element of line 159.
titleStmtMessages(titleStmt) ==
  IF titleStmt # <<>> /\ getElementsByTagName(titleStmt[1], "title") = <<>>
  THEN <<Msg("error", MissingTitleMessage)>>
  ELSE <<>>

\* Lines 148-165: the forEach over requiredInFileDesc, then titleStmt.
fileDescMessages(fileDesc) ==
  Concat([i \in 1..Len(requiredInFileDesc) |->
            IF getElementsByTagName(fileDesc, requiredInFileDesc[i]) = <<>>
            THEN <<Msg("error", MissingInFileDescMessage(requiredInFileDesc[i]))>>
            ELSE <<>>])
  \o titleStmtMessages(First(getElementsByTagName(fileDesc, "titleStmt")))

\* Lines 141-166, with fileDesc the element of line 140.
fileDescOrMissing(fileDesc) ==
  IF fileDesc = <<>> THEN <<Msg("error", MissingFileDescMessage)>>
  ELSE fileDescMessages(fileDesc[1])

\* Lines 139-167.
teiHeaderMessages(teiHeader) ==
  IF teiHeader = <<>> THEN <<>>
  ELSE fileDescOrMissing(First(getElementsByTagName(teiHeader[1], "fileDesc")))

\* Lines 170-175.
textMessages(text) ==
  IF text # <<>> /\ getElementsByTagName(text[1], "body") = <<>>
  THEN <<Msg("error", MissingBodyMessage)>>
  ELSE <<>>

\* Lines 113-175: the messages pushed after the check of the root.
structureMessages(tei) ==
  namespaceMessages(tei)
  \o requiredMessages(First(getElementsByTagName(tei, "teiHeader")),
                      First(getElementsByTagName(tei, "text")))
  \o teiHeaderMessages(First(getElementsByTagName(tei, "teiHeader")))
  \o textMessages(First(getElementsByTagName(tei, "text")))

\* Lines 177-182 with the success message pushed in every case.
withSuccessAlways(messages) == Append(messages, Msg("success", ConformsMessage))

\* Lines 177-182.
withSuccess(messages) ==
  IF Len(messages) = 0 THEN <<Msg("success", ConformsMessage)>> ELSE messages

\* Lines 102-184 without the return of line 110.
teiMessagesNoReturn(tei) ==
  withSuccess((IF tei.name # "TEI" THEN <<Msg("error", RootErrorMessage)>> ELSE <<>>)
              \o structureMessages(tei))

\* Lines 102-184 with a return after the namespace error.
teiMessagesNamespaceReturn(tei) ==
  IF tei.name # "TEI" THEN <<Msg("error", RootErrorMessage)>>
  ELSE IF namespaceMessages(tei) # <<>> THEN namespaceMessages(tei)
  ELSE withSuccess(structureMessages(tei))

\* Lines 102-184, with tei the document element: tei.tagName is the
\* qualified name of the element.
teiMessages(tei) ==
  IF tei.name # "TEI" THEN <<Msg("error", RootErrorMessage)>>
  ELSE withSuccess(structureMessages(tei))

\* The messages validateTEI sets for the buffer text.
validateTEIResult(content) == teiMessages(documentElement(parseFromString(content)))

\* ---------------------------------------------------------------------
\* The reduced validateTEI of the second variant of the component
\* (part_000, lines 99-146).  Its root check (lines 105-113), namespace
\* check (lines 115-120) and success message (lines 132-137) are the code
\* of the reference validator, so namespaceMessages and withSuccess are
\* used for both.
\* ---------------------------------------------------------------------
MissingRequiredMessage == "Elementi obbligatori mancanti (teiHeader o text)"

\* Lines 125-130 with && in the place of ||.
reducedRequiredMessagesBothMissing(teiHeader, text) ==
  IF teiHeader = <<>> /\ text = <<>>
  THEN <<Msg("error", MissingRequiredMessage)>>
  ELSE <<>>

\* Lines 125-130, with teiHeader and text the elements of lines 122-123.
reducedRequiredMessages(teiHeader, text) ==
  IF teiHeader = <<>> \/ text = <<>>
  THEN <<Msg("error", MissingRequiredMessage)>>
  ELSE <<>>

\* Lines 115-130: the messages pushed after the check of the root.
reducedStructureMessages(tei) ==
  namespaceMessages(tei)
  \o reducedRequiredMessages(First(getElementsByTagName(tei, "teiHeader")),
                             First(getElementsByTagName(tei, "text")))

\* Lines 101-139, with tei the document element.
reducedTeiMessages(tei) ==
  IF tei.name # "TEI" THEN <<Msg("error", RootErrorMessage)>>
  ELSE withSuccess(reducedStructureMessages(tei))

\* The messages the reduced validateTEI sets for the buffer text.
validateTEIReducedResult(content) ==
  reducedTeiMessages(documentElement(parseFromString(content)))

\* Lines 198-210, with xmlDoc the document of line 196.
FormatOutcomeOf(xmlDoc) ==
  IF hasParserError(xmlDoc) THEN [thrown |-> TRUE, text |-> <<>>]
  ELSE [thrown |-> FALSE, text |-> formatted(xmlDoc)]

\* What formatXML computes from the buffer before it writes any state
\* (lines 195-210): whether it throws, and the formatted text if not.
FormatOutcome(content) == FormatOutcomeOf(parseFromString(content))

\* Every text the buffer can hold: the initial document and the edited
\* texts, what formatting makes of them, and what formatting makes of that.
\* FormatOutcome is evaluated once for each of them.
GivenTexts == {InitialDoc} \cup EditInputs \cup FormatInputs
FormattedOnce == {FormatOutcome(d).text : d \in GivenTexts}
FormattedTwice == {FormatOutcome(d).text : d \in FormattedOnce}
BufferTexts == GivenTexts \cup FormattedOnce \cup FormattedTwice

FormatOutcomes == [d \in BufferTexts |-> FormatOutcome(d)]

\* formatXML (lines 193-225): the throw of line 199 is caught at line 219.
formatXML ==
  \E out \in {FormatOutcomes[xmlContent]} :
  IF out.thrown
  THEN /\ validationMessages' = <<Msg("error", FormatErrorMessage)>>
       /\ UNCHANGED <<xmlContent, historyRef, currentIndexRef>>
       /\ Observe("format", <<>>)
       /\ Render(TRUE)
  ELSE /\ currentIndexRef + 2 <= MaxHistory
       /\ xmlContent' = out.text
       /\ LET r == addToHistory(historyRef, currentIndexRef, out.text)
          IN historyRef' = r.history /\ currentIndexRef' = r.index
       /\ validationMessages' = <<Msg("success", FormatSuccessMessage)>>
       /\ Observe("format", <<out.text>>)
       /\ Render(TRUE)

\* The texts the validators are given, and what they make of each.
ValidatedTexts == BufferTexts \cup ValidateInputs
SyntaxResults == [d \in ValidatedTexts |-> validateXMLSyntaxResult(d)]
TEIResults == [d \in ValidatedTexts |-> validateTEIResult(d)]

\* validateXMLSyntax (lines 68-94): setValidationMessages replaces the
\* messages on display.
validateXMLSyntax ==
  /\ validationMessages' = SyntaxResults[xmlContent]
  /\ UNCHANGED <<xmlContent, historyRef, currentIndexRef>>
  /\ Observe("validateXMLSyntax", <<>>)
  /\ Render(TRUE)

\* validateTEI (lines 96-191)
validateTEI ==
  /\ validationMessages' = TEIResults[xmlContent]
  /\ UNCHANGED <<xmlContent, historyRef, currentIndexRef>>
  /\ Observe("validateTEI", <<>>)
  /\ Render(TRUE)

\* validateTEI of part_000 (lines 99-146), the handler of the Valida TEI
\* button in that variant of the component.
TEIReducedResults == [d \in ValidatedTexts |-> validateTEIReducedResult(d)]
validateTEIReduced ==
  /\ validationMessages' = TEIReducedResults[xmlContent]
  /\ UNCHANGED <<xmlContent, historyRef, currentIndexRef>>
  /\ Observe("validateTEIReduced", <<>>)
  /\ Render(TRUE)

\* downloadXML that clears the messages on display.
downloadXMLClearsMessages ==
  /\ validationMessages' = <<>>
  /\ UNCHANGED <<xmlContent, historyRef, currentIndexRef>>
  /\ Observe("downloadXML", <<>>)
  /\ Render(TRUE)

\* downloadXML (lines 227-237): the buffer goes into a Blob that the
\* browser saves as documento-tei.xml; the handler calls no state setter
\* and writes no ref.
downloadXML ==
  /\ UNCHANGED core
  /\ Observe("downloadXML", <<>>)
  /\ Render(FALSE)

Next ==
  \/ handleContentChange \/ undo \/ redo \/ formatXML
  \/ validateXMLSyntax \/ validateTEI \/ downloadXML

Spec == Init /\ [][Next]_vars

\* The validators on their own: the state after the first edit, which has
\* put one of the texts to validate into the buffer, and from there the
\* two validators in any order.
InitValidate ==
  \E d \in ValidateInputs :
    /\ xmlContent = d
    /\ validationMessages = <<>>
    /\ historyRef = <<InitialDoc, d>>
    /\ currentIndexRef = 1
    /\ lastOp = [op |-> "edit", rec |-> <<d>>, at |-> 0]
    /\ branch = BranchNext(NoBranch, "edit", <<d>>, <<InitialDoc, d>>)
    /\ trip = TripNext([NoTrip EXCEPT !.phase = "rec"], "edit", <<d>>, <<InitialDoc>>)
    /\ undoDisabled = FALSE
    /\ redoDisabled = TRUE

NextValidate == validateXMLSyntax \/ validateTEI \/ validateTEIReduced

SpecValidate == InitValidate /\ [][NextValidate]_vars

\* The formatter on its own: the state after the first edit, which has put
\* one of the texts to format into the buffer, and from there formatXML,
\* as often as the history bound allows.
InitFormat ==
  \E d \in FormatInputs \cup EditInputs :
    /\ xmlContent = d
    /\ validationMessages = <<>>
    /\ historyRef = <<InitialDoc, d>>
    /\ currentIndexRef = 1
    /\ lastOp = [op |-> "edit", rec |-> <<d>>, at |-> 0]
    /\ branch = BranchNext(NoBranch, "edit", <<d>>, <<InitialDoc, d>>)
    /\ trip = TripNext([NoTrip EXCEPT !.phase = "rec"], "edit", <<d>>, <<InitialDoc>>)
    /\ undoDisabled = FALSE
    /\ redoDisabled = TRUE

NextFormat == formatXML

SpecFormat == InitFormat /\ [][NextFormat]_vars

\* =====================================================================
\* Properties
\* =====================================================================
Recorded == lastOp.rec # <<>>
Range(q) == {q[i] : i \in 1..Len(q)}

\* Whether a buffer text is well-formed XML, and the text formatting a
\* well-formed one gives, for every text the buffer can hold.
WellFormed == [d \in BufferTexts |-> parseFromString(d).ok]
FormattedText ==
  [d \in BufferTexts |->
     IF parseFromString(d).ok THEN formatted(parseFromString(d)) ELSE <<>>]

\* C1: in every reachable state the history is non-empty and the cursor is
\* a valid index into it: 0 <= currentIndex < history.length.
C1_CursorValid ==
  /\ Len(historyRef) >= 1
  /\ 0 <= currentIndexRef
  /\ currentIndexRef < Len(historyRef)

\* C1 witness: three snapshots were recorded and undo has walked the cursor
\* back to the first one.
C1_Witness ==
  /\ Len(historyRef) = MaxHistory
  /\ currentIndexRef = 0
  /\ lastOp.op = "undo"

\* C2: after any sequence of edits, successful or failed formats, undos and
\* redos, the buffer equals the snapshot at the cursor.
C2_BufferIsSnapshotAtCursor ==
  xmlContent = Snapshot(historyRef, currentIndexRef)

\* C2 witness: a format failed on a snapshot reached by undo, with a redo
\* branch still ahead of the cursor.
C2_Witness ==
  /\ lastOp.op = "format"
  /\ ~Recorded
  /\ currentIndexRef > 0
  /\ currentIndexRef < Len(historyRef) - 1

\* C3: a handler that records next in a state with history h and cursor c
\* leaves the history h[0..c] followed by next and the cursor on the new
\* last index c+1.
C3_RecordTruncatesAndAppends ==
  [][lastOp'.rec # <<>> =>
       /\ historyRef' = SubSeq(historyRef, 1, currentIndexRef + 1) \o lastOp'.rec
       /\ currentIndexRef' = currentIndexRef + 1
       /\ currentIndexRef' = Len(historyRef') - 1]_vars

\* C3 witness: a snapshot c was recorded right after record(a); record(b);
\* undo(), so b was after the cursor and is gone, and a is still there.
C3_Witness ==
  /\ Recorded
  /\ branch.stage = "done"
  /\ branch.lost # branch.last
  /\ branch.lost # branch.prev
  /\ Len(historyRef) = lastOp.at + 2
  /\ <<Snapshot(historyRef, lastOp.at)>> = branch.prev

\* The observer has seen record(a); record(b); undo(); record(c) and after
\* it nothing but undo and redo calls (and formats that failed, which call
\* neither).
InBranchWindow == branch.stage \in {"done", "doneUR"}
BranchA == branch.prev[1]
BranchB == branch.lost[1]
BranchC == branch.last[1]

\* The log ends with [..., a, c], and the cursor is on c when c has just
\* been recorded.
BranchLogEndsAC ==
  /\ Len(historyRef) >= 2
  /\ historyRef[Len(historyRef) - 1] = BranchA
  /\ historyRef[Len(historyRef)] = BranchC
  /\ branch.stage = "done" => currentIndexRef = Len(historyRef) - 1

\* C4 as stated: after record(a); record(b); undo(); record(c) the log ends
\* with [..., a, c] with the cursor on c, and no later sequence of undo and
\* redo calls makes the buffer show b again.
C4_BranchDiscardAsStated ==
  InBranchWindow =>
    /\ BranchLogEndsAC
    /\ branch.stage = "doneUR" => xmlContent # BranchB

\* C4 amended: after record(a); record(b); undo(); record(c) the log ends
\* with [..., a, c] with the cursor on c; undo and redo calls from there
\* leave that log as it is and show only its snapshots, so the buffer shows
\* b again only when b's text equals a snapshot that is still in the log.
C4_BranchDiscard ==
  InBranchWindow =>
    /\ BranchLogEndsAC
    /\ historyRef = branch.log
    /\ xmlContent \in Range(branch.log)
    /\ BranchB \notin Range(branch.log) => xmlContent # BranchB

\* C4 witness: b is in no remaining snapshot, and undo and redo calls have
\* gone back to a and forward again to c.
C4_Witness ==
  /\ branch.stage = "doneUR"
  /\ BranchB \notin Range(historyRef)
  /\ lastOp.op = "redo"
  /\ lastOp.at = Len(historyRef) - 2
  /\ xmlContent = BranchC

\* C5: after record(s1); ...; record(sn), u <= n-1 undo calls show
\* s(n-1), ..., s(n-u) in that order; j <= u redo calls then show
\* s(n-u+1), ..., s(n-u+j) in that order; the log is the one before the
\* first undo throughout, and after as many redos as undos the buffer shows
\* sn with the cursor on the last snapshot.  (u = n-1 is the round trip of
\* the claim; a smaller u is the round trip of the last u+1 records.)
C5_HistoryRoundTrip ==
  LET n == Len(trip.run) IN
  /\ trip.phase = "undo" =>
       /\ xmlContent = trip.run[n - trip.u]
       /\ historyRef = trip.log0
  /\ trip.phase = "redo" =>
       /\ xmlContent = trip.run[n - trip.u + trip.j]
       /\ historyRef = trip.log0
       /\ trip.j = trip.u =>
            /\ xmlContent = trip.run[n]
            /\ currentIndexRef = Len(historyRef) - 1

\* C5 witness: three different snapshots were recorded in a row, two undo
\* calls and then two redo calls have run.
C5_Witness ==
  /\ trip.phase = "redo"
  /\ Len(trip.run) = 3
  /\ trip.u = 2
  /\ trip.j = 2
  /\ Cardinality(Range(trip.run)) = 3

\* C6: undo leaves the snapshot sequence unchanged; with cursor > 0 it
\* decrements the cursor by one and sets the buffer to the snapshot at the
\* new cursor; with cursor = 0 it changes nothing (cursor, snapshots,
\* buffer, validation messages) and puts up no error message.
C6_UndoEffect ==
  [][lastOp'.op = "undo" =>
       /\ historyRef' = historyRef
       /\ currentIndexRef > 0 =>
            /\ currentIndexRef' = currentIndexRef - 1
            /\ xmlContent' = Snapshot(historyRef, currentIndexRef - 1)
       /\ currentIndexRef = 0 => UNCHANGED core]_vars

\* C6 witness: undo was called with the cursor already on the first of
\* several snapshots and a message of an earlier format on display.
C6_Witness ==
  /\ lastOp.op = "undo"
  /\ lastOp.at = 0
  /\ currentIndexRef = 0
  /\ Len(historyRef) >= 3
  /\ validationMessages # <<>>

\* C7: redo leaves the snapshot sequence unchanged; with cursor < length-1
\* it increments the cursor by one and sets the buffer to the snapshot at
\* the new cursor; with cursor = length-1 it changes nothing.
C7_RedoEffect ==
  [][lastOp'.op = "redo" =>
       /\ historyRef' = historyRef
       /\ currentIndexRef < Len(historyRef) - 1 =>
            /\ currentIndexRef' = currentIndexRef + 1
            /\ xmlContent' = Snapshot(historyRef, currentIndexRef + 1)
       /\ currentIndexRef = Len(historyRef) - 1 => UNCHANGED core]_vars

\* C7 witness: redo was called with the cursor already on the last of
\* several snapshots, which earlier redo calls had reached.
C7_Witness ==
  /\ lastOp.op = "redo"
  /\ lastOp.at = Len(historyRef) - 1
  /\ currentIndexRef = Len(historyRef) - 1
  /\ Len(historyRef) >= 3
  /\ branch.stage = "doneUR"

\* C8: recording a text equal to the snapshot at the cursor still appends:
\* the log is cursor_before + 2 long, the cursor advances by one, and the
\* two snapshots at and before the cursor are equal; so does a successful
\* format of a buffer that is already in the formatter's shape.
C8_RecordingIsUnconditional ==
  [][(lastOp'.rec = <<Snapshot(historyRef, currentIndexRef)>>) =>
       /\ Len(historyRef') = currentIndexRef + 2
       /\ currentIndexRef' = currentIndexRef + 1
       /\ Snapshot(historyRef', currentIndexRef') = Snapshot(historyRef', currentIndexRef)
       /\ lastOp'.op = "format" =>
            /\ xmlContent' = xmlContent
            /\ FormattedText[xmlContent] = xmlContent]_vars

\* C8 witness: a format succeeded and recorded a text equal to the snapshot
\* before it.
C8_Witness ==
  /\ lastOp.op = "format"
  /\ Recorded
  /\ currentIndexRef = lastOp.at + 1
  /\ Snapshot(historyRef, currentIndexRef) = Snapshot(historyRef, lastOp.at)

\* C9: a format of a buffer that is not well-formed XML leaves the buffer,
\* the snapshot sequence and the cursor unchanged and sets the validation
\* messages to exactly one error message.
C9_FailedFormatChangesNothing ==
  [][(lastOp'.op = "format" /\ ~WellFormed[xmlContent]) =>
       /\ UNCHANGED <<xmlContent, historyRef, currentIndexRef>>
       /\ Len(validationMessages') = 1
       /\ validationMessages'[1].type = "error"]_vars

\* C9 witness: a format ran on a malformed buffer that undo had brought
\* back, with a redo branch ahead of the cursor.
C9_Witness ==
  /\ lastOp.op = "format"
  /\ ~WellFormed[xmlContent]
  /\ validationMessages = <<Msg("error", FormatErrorMessage)>>
  /\ currentIndexRef < Len(historyRef) - 1

\* C10: a format of a well-formed buffer sets the buffer to the formatted
\* text and records exactly that text (one new entry at the end, cursor on
\* it, redo branch discarded), and a format adds a history entry exactly
\* when it succeeds.
C10_FormatOfWellFormedRecords ==
  [][lastOp'.op = "format" =>
       /\ WellFormed[xmlContent] =>
            /\ xmlContent' = FormattedText[xmlContent]
            /\ historyRef' = SubSeq(historyRef, 1, currentIndexRef + 1) \o <<xmlContent'>>
            /\ currentIndexRef' = Len(historyRef') - 1
            /\ validationMessages' = <<Msg("success", FormatSuccessMessage)>>
       /\ ~WellFormed[xmlContent] => historyRef' = historyRef]_vars

\* ---------------------------------------------------------------------
\* The validators (C11-C20), under SpecValidate.
\* ---------------------------------------------------------------------
\* The parsed document of every text the validators are given.
Document == [d \in ValidatedTexts |-> parseFromString(d)]

\* The handler that ran last is validateTEI (validateXMLSyntax): the
\* messages on display are its result for the text in the buffer.
RanValidateTEI == lastOp.op = "validateTEI"
RanValidateXMLSyntax == lastOp.op = "validateXMLSyntax"

\* The buffer parses, and its root element.
BufferParses == Document[xmlContent].ok
BufferRoot == Document[xmlContent].root

Texts(ms) == {ms[i].message : i \in 1..Len(ms)}
Count(ms, type) == Cardinality({i \in 1..Len(ms) : ms[i].type = type})
Occurrences(ms, text) == Cardinality({i \in 1..Len(ms) : ms[i].message = text})
ErrorsOf(ms) == SelectSeq(ms, LAMBDA m : m.type = "error")

\* The child elements of n with that name, oldest first.
Children(n, name) ==
  SelectSeq(n.children, LAMBDA c : c.kind = "elem" /\ c.name = name)
HasChild(n, name) == Children(n, name) # <<>>

\* The messages about a missing element, in the order of the checks.
MissingMessages ==
  <<MissingTeiHeaderMessage, MissingTextMessage, MissingFileDescMessage,
    MissingInFileDescMessage("titleStmt"), MissingInFileDescMessage("publicationStmt"),
    MissingInFileDescMessage("sourceDesc"), MissingTitleMessage, MissingBodyMessage>>

\* C11: validateTEI on text that is not well-formed returns exactly one
\* error message, and that message is the parser's diagnostic, not the
\* root-element message, the namespace message or a missing-element message.
C11_MalformedGetsParserDiagnostic ==
  (RanValidateTEI /\ ~BufferParses) =>
    /\ Len(validationMessages) = 1
    /\ validationMessages[1].type = "error"
    /\ validationMessages[1].message
         \notin {RootErrorMessage, NamespaceErrorMessage} \cup Range(MissingMessages)

\* C12: when the root element is not TEI, validateTEI returns exactly one
\* message, the root-element error, whatever else is wrong with the
\* document (namespace, header, text, nested elements).
C12_RootFailureOnlyRootError ==
  (RanValidateTEI /\ documentElement(Document[xmlContent]).name # "TEI") =>
    validationMessages = <<Msg("error", RootErrorMessage)>>

\* C12 witness: validateTEI ran on a well-formed document with the root p,
\* no namespace, no teiHeader and no text.
C12_Witness ==
  /\ RanValidateTEI
  /\ BufferParses
  /\ BufferRoot.name = "p"
  /\ BufferRoot.attrs = <<>>
  /\ ~HasElement(BufferRoot, "teiHeader")
  /\ ~HasElement(BufferRoot, "text")
  /\ validationMessages = <<Msg("error", RootErrorMessage)>>

\* C13: a well-formed document whose root has the local name TEI, with or
\* without a prefix, passes the root check: validateTEI does not report the
\* root-element error for it.
C13_RootCheckUsesLocalName ==
  (RanValidateTEI /\ BufferParses /\ LocalName(BufferRoot.name) = "TEI") =>
    RootErrorMessage \notin Texts(validationMessages)

\* C14: the messages of validateTEI hold a success message exactly when
\* they hold no error message; a successful run yields exactly one message,
\* a failing run one or more error messages and no success message.
C14_SuccessPurity ==
  RanValidateTEI =>
    /\ Count(validationMessages, "success") > 0 <=> Count(validationMessages, "error") = 0
    /\ Count(validationMessages, "success") > 0 => Len(validationMessages) = 1
    /\ Count(validationMessages, "success") = 0 =>
         /\ Len(validationMessages) >= 1
         /\ Count(validationMessages, "error") = Len(validationMessages)

\* C14 witness: validateTEI returned four or more messages for a
\* well-formed text.
C14_Witness ==
  /\ RanValidateTEI
  /\ Len(validationMessages) >= 4
  /\ BufferParses

\* The root start tag of a text: where it starts and where it ends.
RootAt(s) == SkipS(s, IF HasDecl(s) THEN 4 ELSE 1)
RootTagEnd(s) == FirstIn(s, RootAt(s), Len(s), {GT})
RootTagHas(s, a) == FirstIn(s, RootAt(s), RootTagEnd(s), {a}) # 0

\* The text with the TEI namespace declared on its root element in place
\* of another default namespace or of none.
Replaced(s, k, a) == [s EXCEPT ![k] = a]
WithTEINamespace(s) ==
  IF RootTagHas(s, "xmlns") THEN s
  ELSE IF RootTagHas(s, "xmlnsOther")
       THEN Replaced(s, FirstIn(s, RootAt(s), RootTagEnd(s), {"xmlnsOther"}), "xmlns")
       ELSE SubSeq(s, 1, RootAt(s) + 1) \o <<SP, "xmlns">>
            \o SubSeq(s, RootAt(s) + 2, Len(s))

\* C15: for a document with the root TEI whose default namespace is absent
\* or another one, validateTEI returns the namespace error followed by
\* exactly the errors it returns for the same document with the TEI
\* namespace.
C15_NamespaceDoesNotShortCircuit ==
  (RanValidateTEI /\ BufferParses /\ BufferRoot.name = "TEI"
     /\ ~RootTagHas(xmlContent, "xmlns")) =>
    validationMessages =
      <<Msg("error", NamespaceErrorMessage)>>
      \o ErrorsOf(validateTEIResult(WithTEINamespace(xmlContent)))

\* C15 witness: validateTEI ran on a document that declares another
\* namespace and returned the namespace error and two more errors.
C15_Witness ==
  /\ RanValidateTEI
  /\ BufferParses
  /\ BufferRoot.name = "TEI"
  /\ RootTagHas(xmlContent, "xmlnsOther")
  /\ Len(validationMessages) = 3
  /\ validationMessages[1].message = NamespaceErrorMessage

\* C16: for a document with the root TEI, validateTEI reports the missing
\* teiHeader exactly when the root has no teiHeader child and the missing
\* text exactly when the root has no text child, one message each; an
\* element of that name deeper in the tree does not count.
C16_RequiredAreChildrenOfRoot ==
  (RanValidateTEI /\ BufferParses /\ BufferRoot.name = "TEI") =>
    /\ Occurrences(validationMessages, MissingTeiHeaderMessage)
         = (IF HasChild(BufferRoot, "teiHeader") THEN 0 ELSE 1)
    /\ Occurrences(validationMessages, MissingTextMessage)
         = (IF HasChild(BufferRoot, "text") THEN 0 ELSE 1)

\* The messages about the three required children of fileDesc and about
\* the title.
BelowFileDescMessages ==
  {MissingInFileDescMessage(requiredInFileDesc[i]) : i \in 1..Len(requiredInFileDesc)}
  \cup {MissingTitleMessage}

\* What C17 says of a teiHeader element h that is a child of the root.
HeaderDescent(h, ms) ==
  IF ~HasChild(h, "fileDesc")
  THEN /\ Occurrences(ms, MissingFileDescMessage) = 1
       /\ Texts(ms) \cap BelowFileDescMessages = {}
  ELSE /\ Occurrences(ms, MissingFileDescMessage) = 0
       /\ \A i \in 1..Len(requiredInFileDesc) :
            Occurrences(ms, MissingInFileDescMessage(requiredInFileDesc[i]))
              = (IF HasChild(Children(h, "fileDesc")[1], requiredInFileDesc[i]) THEN 0 ELSE 1)

\* C17: when the teiHeader has no fileDesc child, exactly one error names
\* fileDesc and none names titleStmt, publicationStmt, sourceDesc or title;
\* when it has one, exactly one error names each of titleStmt,
\* publicationStmt and sourceDesc that is not a child of fileDesc, and none
\* names one that is.
C17_HeaderDescent ==
  (RanValidateTEI /\ BufferParses /\ BufferRoot.name = "TEI"
     /\ HasChild(BufferRoot, "teiHeader")) =>
    HeaderDescent(Children(BufferRoot, "teiHeader")[1], validationMessages)

\* The element reached from n through children with the names of path
\* (<<the element>>, or <<>> when a step has no such child).
RECURSIVE Descend(_, _)
Descend(n, path) ==
  IF path = <<>> THEN <<n>>
  ELSE IF HasChild(n, Head(path)) THEN Descend(Children(n, Head(path))[1], Tail(path))
  ELSE <<>>
Reaches(n, path) == Descend(n, path) # <<>>

\* The document satisfies every rule of the profile but, possibly, the one
\* about the title: root TEI in the TEI namespace, with teiHeader and text,
\* fileDesc, titleStmt, publicationStmt, sourceDesc and body as children of
\* the elements that require them.
ConformsUpToTitle(r) ==
  /\ r.name = "TEI"
  /\ InSeq("xmlns", r.attrs)
  /\ Reaches(r, <<"teiHeader", "fileDesc", "titleStmt">>)
  /\ Reaches(r, <<"teiHeader", "fileDesc", "publicationStmt">>)
  /\ Reaches(r, <<"teiHeader", "fileDesc", "sourceDesc">>)
  /\ Reaches(r, <<"text", "body">>)

TitleStmtIn(r) == Descend(r, <<"teiHeader", "fileDesc", "titleStmt">>)[1]

\* C18: for a document that satisfies every other rule, validateTEI returns
\* exactly one message: the error naming the title when titleStmt contains
\* no title, the success message when titleStmt has a title child.
C18_MissingTitle ==
  (RanValidateTEI /\ BufferParses /\ ConformsUpToTitle(BufferRoot)) =>
    /\ ~HasElement(TitleStmtIn(BufferRoot), "title")
         => validationMessages = <<Msg("error", MissingTitleMessage)>>
    /\ HasChild(TitleStmtIn(BufferRoot), "title")
         => validationMessages = <<Msg("success", ConformsMessage)>>

\* C18 witness: validateTEI ran on a document that lacks only the title.
C18_Witness ==
  /\ RanValidateTEI
  /\ BufferParses
  /\ ConformsUpToTitle(BufferRoot)
  /\ ~HasElement(TitleStmtIn(BufferRoot), "title")
  /\ validationMessages = <<Msg("error", MissingTitleMessage)>>

\* The fixed order of the error messages, and the place of a text in it
\* (0: not one of them).
ErrorOrder == <<NamespaceErrorMessage>> \o MissingMessages
Rank(text) ==
  IF text \in Range(ErrorOrder)
  THEN CHOOSE k \in 1..Len(ErrorOrder) : ErrorOrder[k] = text
  ELSE 0

\* The error messages are a subsequence of ErrorOrder: each is one of its
\* kinds, and the kinds come in its order, none twice.
InErrorOrder(ms) ==
  /\ \A i \in 1..Len(ms) : Rank(ms[i].message) # 0
  /\ \A i, j \in 1..Len(ms) : i < j => Rank(ms[i].message) < Rank(ms[j].message)

\* A text element is present in the document and there is no body in it.
RECURSIVE Inside(_, _, _)
Inside(n, outer, inner) ==
  /\ n.kind = "elem"
  /\ \/ n.name = outer /\ \E i \in 1..Len(n.children) : HasElement(n.children[i], inner)
     \/ \E i \in 1..Len(n.children) : Inside(n.children[i], outer, inner)
TextWithoutBody(doc) ==
  /\ HasElement(documentElement(doc), "text")
  /\ ~Inside(documentElement(doc), "text", "body")

OrderedErrors ==
  /\ InErrorOrder(ErrorsOf(validationMessages))
  /\ MissingBodyMessage \in Texts(validationMessages) <=> TextWithoutBody(Document[xmlContent])

\* C19 as stated: in every result of validateTEI the error messages are a
\* subsequence of the fixed order namespace, teiHeader, text, fileDesc,
\* titleStmt, publicationStmt, sourceDesc, title, body, each kind at most
\* once, and the missing-body error is there exactly when text is present
\* without a body.
C19_MessageOrderAsStated == RanValidateTEI => OrderedErrors

\* C19 amended: the same, for every result of validateTEI on a document
\* whose root element is TEI; for any other document the result is the
\* root-element error alone.
C19_MessageOrder ==
  RanValidateTEI =>
    IF documentElement(Document[xmlContent]).name = "TEI"
    THEN OrderedErrors
    ELSE validationMessages = <<Msg("error", RootErrorMessage)>>

\* C19 witness: validateTEI returned the namespace error, the errors about
\* publicationStmt, sourceDesc and title, and the missing-body error.
C19_Witness ==
  /\ RanValidateTEI
  /\ Len(validationMessages) = 5
  /\ validationMessages[1].message = NamespaceErrorMessage
  /\ validationMessages[4].message = MissingTitleMessage
  /\ validationMessages[5].message = MissingBodyMessage

\* C20: validateXMLSyntax always sets exactly one message, whatever was on
\* display: an error when the text is not well-formed, a success when the
\* text parses.
C20_SyntaxExactlyOneMessage ==
  RanValidateXMLSyntax =>
    /\ Len(validationMessages) = 1
    /\ BufferParses => validationMessages[1].type = "success"
    /\ ~BufferParses => validationMessages[1].type = "error"

\* C21: formatting is idempotent: for every well-formed text x that
\* formatXML formats, formatting the result again gives the same text,
\* format(format(x)) = format(x).  After formatXML has recorded its result,
\* the buffer holds format(x), and formatXML makes of it the buffer itself.
C21_FormatIdempotent ==
  (lastOp.op = "format" /\ Recorded) =>
    /\ ~FormatOutcomes[xmlContent].thrown
    /\ FormatOutcomes[xmlContent].text = xmlContent

\* C21 witness: formatXML ran twice on a text it changed the first time
\* (white space in the tags, in the content or between the elements), and
\* the second run recorded the text of the first.
C21_Witness ==
  /\ lastOp.op = "format" /\ Recorded
  /\ currentIndexRef = 3
  /\ historyRef[2] \in FormatInputs
  /\ historyRef[3] # historyRef[2]
  /\ historyRef[4] = historyRef[3]
  /\ xmlContent = historyRef[4]

\* C22: the first snapshot is the initial document in every reachable
\* state, whatever edits, formats, undos and redos ran; and when undo is
\* called with nothing left to undo, the cursor is on that first snapshot
\* and the buffer shows the initial document.
C22_FirstSnapshotIsInitial ==
  /\ historyRef[1] = InitialDoc
  /\ (lastOp.op = "undo" /\ lastOp.at = 0) =>
       /\ currentIndexRef = 0
       /\ xmlContent = InitialDoc

\* C22 witness: an edit and a format were recorded, undo walked back over
\* both and was called once more, which changed nothing.
C22_Witness ==
  /\ lastOp.op = "undo" /\ lastOp.at = 0
  /\ Len(historyRef) = 3
  /\ historyRef[2] = DocUnformatted
  /\ historyRef[3] # DocUnformatted
  /\ xmlContent = InitialDoc

\* C23: validateXMLSyntax, validateTEI and downloadXML never change the
\* buffer, the snapshots or the cursor; the validators change the
\* validation messages only, and the export changes no core state.
C23_ValidationAndExportFrame ==
  [][/\ lastOp'.op \in {"validateXMLSyntax", "validateTEI", "downloadXML"} =>
          UNCHANGED <<xmlContent, historyRef, currentIndexRef>>
     /\ lastOp'.op = "downloadXML" => UNCHANGED core]_vars

\* C23 witness: the export ran with messages on display and the cursor
\* inside the history, snapshots before it and after it.
C23_Witness ==
  /\ lastOp.op = "downloadXML"
  /\ validationMessages # <<>>
  /\ currentIndexRef > 0
  /\ currentIndexRef < Len(historyRef) - 1

\* C24: after every user action the Undo button as rendered is disabled
\* exactly when the cursor is 0, and the Redo button as rendered is
\* disabled exactly when the cursor is on the last snapshot.
C24_RenderedControlsFollowCursor ==
  /\ undoDisabled <=> (currentIndexRef = 0)
  /\ redoDisabled <=> (currentIndexRef = Len(historyRef) - 1)

\* What the reduced validator is to make of a text, given the messages
\* ms of the reference validator for it: the root error as it is;
\* otherwise the namespace error if ms has it, then one combined error if
\* ms reports teiHeader or text missing, and success if neither.
RanValidateTEIReduced == lastOp.op = "validateTEIReduced"
Coarsened(ms) ==
  IF ms = <<Msg("error", RootErrorMessage)>> THEN ms
  ELSE withSuccess(
         SelectSeq(ms, LAMBDA m : m.message = NamespaceErrorMessage)
         \o (IF {MissingTeiHeaderMessage, MissingTextMessage} \cap Texts(ms) # {}
             THEN <<Msg("error", MissingRequiredMessage)>>
             ELSE <<>>))

\* C25: the reduced validator is a coarsening of the reference validator
\* on every parsed document: when the root element is not TEI both return
\* the same single root-element error; whenever the reference validator
\* returns success so does the reduced one; and the reduced result is the
\* reference result with the checks below teiHeader and text left out and
\* a missing teiHeader and/or text reported as one combined error.
C25_ReducedCoarsensReference ==
  RanValidateTEIReduced =>
    /\ documentElement(Document[xmlContent]).name # "TEI" =>
         /\ validationMessages = <<Msg("error", RootErrorMessage)>>
         /\ TEIResults[xmlContent] = validationMessages
    /\ TEIResults[xmlContent] = <<Msg("success", ConformsMessage)>> =>
         validationMessages = <<Msg("success", ConformsMessage)>>
    /\ validationMessages = Coarsened(TEIResults[xmlContent])

\* C25 witness: the reduced validator accepted a text with teiHeader and
\* text in which the reference validator finds the file description
\* missing.
C25_Witness ==
  /\ RanValidateTEIReduced
  /\ validationMessages = <<Msg("success", ConformsMessage)>>
  /\ TEIResults[xmlContent] = <<Msg("error", MissingFileDescMessage)>>

====
